---- MODULE Spec2Model ----
(***************************************************************************)
(* Model of the resume screener (src/app.py): the text cleaner             *)
(* cleanResume, the artifact loader load_models, the inference function    *)
(* predict_category_and_suggest and the POST /predict route.               *)
(*                                                                         *)
(* A text is a sequence of characters; a character is a one-element name:  *)
(* ASCII characters name themselves (the grave accent is "U+0060"),        *)
(* "U+00E9" is the non-ASCII letter e-acute and "U+00A0" the non-ASCII     *)
(* whitespace NO-BREAK SPACE.                                              *)
(***************************************************************************)
EXTENDS Integers, Sequences, FiniteSets, TLC

VARIABLES
    \* the text cleaner run on its own: input, first and second pass
    sample, pass1, pass2, stage

cleanVars == <<sample, pass1, pass2, stage>>

VARIABLES
    \* the files load_models reads: model/tfidf.pkl, model/clf.pkl,
    \* model/encoder.pkl and resume_categories.json
    disk,
    \* the module globals of lines 29 to 35
    tfidf, svc_model, le, CATEGORY_MAP, INVERSE_TRANSFORM, SUGGESTIONS_MAP,
    MODELS_LOADED_SUCCESSFULLY,
    \* how the latest call of load_models ended
    lastLoad,
    \* "import" until the module-level load_models() of line 97 has run
    phase,
    \* the server threads that take requests
    threads,
    \* the requests in flight, one per server thread
    req

globalVars ==
    <<tfidf, svc_model, le, CATEGORY_MAP, INVERSE_TRANSFORM, SUGGESTIONS_MAP,
      MODELS_LOADED_SUCCESSFULLY>>

serverVars == <<disk, globalVars, lastLoad, phase, threads, req>>

vars == <<cleanVars, serverVars>>

\* ------------------------------------------------------------------------
\* Characters and the classes the regular expressions of cleanResume use
\* ------------------------------------------------------------------------

Lower == {"a","b","c","d","e","f","g","h","i","j","k","l","m",
          "n","o","p","q","r","s","t","u","v","w","x","y","z"}

Upper == {"A","B","C","D","E","F","G","H","I","J","K","L","M",
          "N","O","P","Q","R","S","T","U","V","W","X","Y","Z"}

Digits == {"0","1","2","3","4","5","6","7","8","9"}

\* \s of a str pattern and str.strip(): Unicode whitespace
Whitespace == {" ", "\n", "\t", "\r", "U+00A0"}

\* the character class of line 112
Punct == {"!", "\"", "#", "$", "%", "&", "'", "(", ")", "*", "+", ",", "-",
          ".", "/", ":", ";", "<", "=", ">", "?", "@", "[", "\\", "]", "^",
          "_", "U+0060", "{", "|", "}", "~"}

IsSpace(c) == c \in Whitespace

IsAlnum(c) == c \in Lower \cup Upper \cup Digits

\* str.strip(): drop leading and trailing whitespace
RECURSIVE LStrip(_)
LStrip(s) == IF s # <<>> /\ IsSpace(Head(s)) THEN LStrip(Tail(s)) ELSE s

RECURSIVE RStrip(_)
RStrip(s) ==
    IF s # <<>> /\ IsSpace(s[Len(s)])
    THEN RStrip(SubSeq(s, 1, Len(s) - 1))
    ELSE s

Strip(s) == RStrip(LStrip(s))

\* does s carry the literal lit at position i
HasAt(s, i, lit) ==
    /\ i + Len(lit) - 1 <= Len(s)
    /\ \A k \in 1..Len(lit) : s[i + k - 1] = lit[k]

\* end (exclusive) of the maximal run of non-whitespace starting at i
RECURSIVE RunEnd(_, _)
RunEnd(s, i) == IF i <= Len(s) /\ ~IsSpace(s[i]) THEN RunEnd(s, i + 1) ELSE i

\* re.sub(lit + r'\S+\s', ' ', s) when needWs, re.sub(lit + r'\S+', repl, s)
\* otherwise: leftmost matches, \S+ greedy; lit holds no whitespace, so
\* backtracking \S+ can never find the \s the maximal run does not end at
RECURSIVE SubToken(_, _, _, _, _)
SubToken(s, i, lit, needWs, repl) ==
    IF i > Len(s) THEN <<>>
    ELSE LET j == RunEnd(s, i + Len(lit))
             matches == /\ HasAt(s, i, lit)
                        /\ j > i + Len(lit)
                        /\ (needWs => j <= Len(s))
         IN IF matches
            THEN repl \o SubToken(s, IF needWs THEN j + 1 ELSE j, lit, needWs, repl)
            ELSE <<s[i]>> \o SubToken(s, i + 1, lit, needWs, repl)

\* re.sub(r'RT|cc', ' ', s)
RECURSIVE SubRTcc(_, _)
SubRTcc(s, i) ==
    IF i > Len(s) THEN <<>>
    ELSE IF HasAt(s, i, <<"R", "T">>) \/ HasAt(s, i, <<"c", "c">>)
         THEN <<" ">> \o SubRTcc(s, i + 2)
         ELSE <<s[i]>> \o SubRTcc(s, i + 1)

IsPunct(c) == c \in Punct

IsNotAlnumSpace(c) == ~IsAlnum(c) /\ ~IsSpace(c)

\* end (exclusive) of the maximal run of whitespace starting at i
RECURSIVE RunEndWs(_, _)
RunEndWs(s, i) == IF i <= Len(s) /\ IsSpace(s[i]) THEN RunEndWs(s, i + 1) ELSE i

\* re.sub(r'\s+', ' ', s)
RECURSIVE Collapse(_, _)
Collapse(s, i) ==
    IF i > Len(s) THEN <<>>
    ELSE IF IsSpace(s[i])
         THEN <<" ">> \o Collapse(s, RunEndWs(s, i))
         ELSE <<s[i]>> \o Collapse(s, i + 1)

\* the steps of cleanResume, lines 106 to 120, in order
StepStrip(s) == Strip(s)

StepUrl(s) == SubToken(s, 1, <<"h", "t", "t", "p">>, TRUE, <<" ">>)

StepRTcc(s) == SubRTcc(s, 1)

\* a cleaner that strips the marker of a hashtag and keeps its word
StepHashtag_MarkerOnly(s) == [k \in 1..Len(s) |-> IF s[k] = "#" THEN " " ELSE s[k]]

StepHashtag(s) == SubToken(s, 1, <<"#">>, TRUE, <<" ">>)

StepMention(s) == SubToken(s, 1, <<"@">>, FALSE, <<" ", " ">>)

\* re.sub of a one-character class by a space
StepPunct(s) == [k \in 1..Len(s) |-> IF IsPunct(s[k]) THEN " " ELSE s[k]]

\* a cleaner without the step of line 115
StepNonAscii_Skipped(s) == s

StepNonAscii(s) ==
    [k \in 1..Len(s) |-> IF IsNotAlnumSpace(s[k]) THEN " " ELSE s[k]]

StepCollapse(s) == Collapse(s, 1)

\* lines 106 to 120: each line works on the value the line before assigned
\* to cleanText (t1 .. t8), which is computed once
cleanResume(txt) ==
    CHOOSE cleaned \in
        { StepStrip(t8) : t8 \in
        { StepCollapse(t7) : t7 \in
        { StepNonAscii(t6) : t6 \in
        { StepPunct(t5) : t5 \in
        { StepMention(t4) : t4 \in
        { StepHashtag(t3) : t3 \in
        { StepRTcc(t2) : t2 \in
        { StepUrl(t1) : t1 \in
        { StepStrip(txt) } } } } } } } } } : TRUE

\* ------------------------------------------------------------------------
\* Inputs of the text cleaner
\* ------------------------------------------------------------------------

\* an input is the concatenation of at most MaxPieces pieces
MaxPieces == 4

Pieces ==
    { <<"h", "t", "t", "p">>, <<"x">>, <<"c">>, <<"R", "T">>, <<".">>,
      <<"#">>, <<"@">>, <<" ">>, <<"U+00A0">>, <<"U+00E9">> }

RECURSIVE Flatten(_)
Flatten(ps) == IF ps = <<>> THEN <<>> ELSE Head(ps) \o Flatten(Tail(ps))

\* the scenario input of the documentation
ScenarioInput ==
    <<"E", "x", "p", "e", "r", "i", "e", "n", "c", "e", " ", "i", "n", " ",
      "P", "y", "t", "h", "o", "n", ",", " ", "M", "a", "c", "h", "i", "n",
      "e", " ", "L", "e", "a", "r", "n", "i", "n", "g", ",", " ", "a", "n",
      "d", " ", "D", "a", "t", "a", " ", "A", "n", "a", "l", "y", "s", "i",
      "s", ".", " ", "#", "D", "a", "t", "a", "S", "c", "i", "e", "n", "c",
      "e", " ", "@", "c", "o", "m", "p", "a", "n", "y", " ", "R", "T">>

CleanInputs ==
    { Flatten(ps) : ps \in UNION { [1..n -> Pieces] : n \in 0..MaxPieces } }
        \cup { ScenarioInput }

\* ------------------------------------------------------------------------
\* Specification of the cleaner alone: clean an input, then clean the result
\* ------------------------------------------------------------------------

CleanInit ==
    /\ sample \in CleanInputs
    /\ pass1 = <<>>
    /\ pass2 = <<>>
    /\ stage = "raw"

CleanOnce ==
    /\ stage = "raw"
    /\ pass1' = cleanResume(sample)
    /\ stage' = "once"
    /\ UNCHANGED <<sample, pass2>>

CleanTwice ==
    /\ stage = "once"
    /\ pass2' = cleanResume(pass1)
    /\ stage' = "twice"
    /\ UNCHANGED <<sample, pass1>>

\* ------------------------------------------------------------------------
\* The files and the objects they unpickle to
\* ------------------------------------------------------------------------

None == "None"

\* a pickle file is absent, unreadable by pickle.load, or holds an object;
\* "wide" is a classifier trained on one class more than the encoder knows,
\* "noclasses" an object without the attribute classes_
TfidfFiles == {"absent", "corrupt", "good"}

ClfFiles == {"absent", "corrupt", "good", "wide"}

EncoderFiles == {"absent", "corrupt", "good", "noclasses"}

\* resume_categories.json: missing, not JSON, a list with a record lacking
\* 'suggestion', a list without an entry for "HR", a list with every label
CatalogFiles == {"absent", "unparsable", "badrecord", "partial", "full"}

Disks ==
    [tfidf : TfidfFiles, clf : ClfFiles, enc : EncoderFiles, cat : CatalogFiles]

\* le.classes_ of the encoder the "good" file holds
Classes == <<"Data Science", "HR">>

DataScienceTip == "Build a project portfolio."

HRTip == "Highlight people management."

\* the default of SUGGESTIONS_MAP.get, line 150
GenericSuggestion ==
    "No specific suggestions available. Focus on quantifying achievements and listing key skills clearly."

\* the value of line 128
UnavailableCategory == "Model Unavailable"

UnavailableSuggestion ==
    "Please verify your model download URLs and check the Render service logs for download errors."

\* json.load of the catalog file: the list of records, as (name, suggestion)
\* pairs; the record of "badrecord" that lacks 'suggestion' is not in it
CatalogRecords(doc) ==
    CASE doc = "full" -> { <<"Data Science", DataScienceTip>>, <<"HR", HRTip>> }
      [] doc = "partial" -> { <<"Data Science", DataScienceTip>> }
      [] OTHER -> {}

\* ------------------------------------------------------------------------
\* load_models, lines 52 to 93
\* ------------------------------------------------------------------------

\* what a download does in one call: the request fails before the file is
\* opened, the copy breaks after it was opened, the file arrives, or the
\* server answers 200 with something that is no pickle
NetOutcomes == {"httperror", "truncated", "good", "garbage"}

PickleFiles == <<"tfidf", "clf", "enc">>

\* the first file of DOWNLOAD_URLS that does not exist, 0 if all exist
FirstAbsent(d) ==
    IF d.tfidf = "absent" THEN 1
    ELSE IF d.clf = "absent" THEN 2
    ELSE IF d.enc = "absent" THEN 3 ELSE 0

\* download_file raises (lines 46 to 49)
DownloadRaises(d, net) ==
    FirstAbsent(d) # 0 /\ net \in {"httperror", "truncated"}

\* the files after the loop of lines 65 to 68
AfterDownload(d, net) ==
    LET written == IF net = "good" THEN "good" ELSE "corrupt"
        fill(f) == IF d[f] = "absent" THEN written ELSE d[f]
    IN CASE FirstAbsent(d) = 0 \/ net = "httperror" -> d
         [] net = "truncated" ->
                [d EXCEPT ![PickleFiles[FirstAbsent(d)]] = "corrupt"]
         [] OTHER ->
                [d EXCEPT !.tfidf = fill("tfidf"), !.clf = fill("clf"),
                          !.enc = fill("enc")]

\* the steps of the try block, in order
LoadSteps ==
    <<"download", "tfidf", "clf", "encoder", "catalog", "classes", "suggestions">>

\* the step of the try block that raises, "ok" if none does; d is the
\* content of the files after the download loop
FailingStep(d, raised) ==
    CASE raised -> "download"
      [] d.tfidf # "good" -> "tfidf"
      [] d.clf \notin {"good", "wide"} -> "clf"
      [] d.enc \notin {"good", "noclasses"} -> "encoder"
      [] d.cat \in {"absent", "unparsable"} -> "catalog"
      [] d.enc = "noclasses" -> "classes"
      [] d.cat = "badrecord" -> "suggestions"
      [] OTHER -> "ok"

StepIndex(step) == CHOOSE i \in 1..Len(LoadSteps) : LoadSteps[i] = step

\* the try block got past step: it did not raise there or before
Passed(failed, step) ==
    failed = "ok" \/ StepIndex(failed) > StepIndex(step)

\* {i: name for i, name in enumerate(le.classes_)}, as (index, name) pairs
InverseTable(classes) == { <<i - 1, classes[i]>> : i \in 1..Len(classes) }

\* a loader that drops what it had loaded when a later step raises
Assigned_Discarding(failed, step, new, old) == IF failed = "ok" THEN new ELSE None

\* a loader that unpickles a file only while its global is still None
Assigned_KeepLoaded(failed, step, new, old) ==
    IF old # None THEN old ELSE IF Passed(failed, step) THEN new ELSE old

\* an assignment of the try block: made if the block got past step
Assigned(failed, step, new, old) == IF Passed(failed, step) THEN new ELSE old

\* a loader for which a catalog that cannot be read or used is no failure
LoadedFlag_CatalogLenient(failed) == failed \in {"ok", "catalog", "suggestions"}

\* lines 88 and 93: the flag after the try block
LoadedFlag(failed) == failed = "ok"

\* load_models without the early return of lines 56 and 57
load_models_Unguarded(net) ==
    LET d == AfterDownload(disk, net)
        failed == FailingStep(d, DownloadRaises(disk, net))
    IN /\ disk' = d
       /\ tfidf' = Assigned(failed, "tfidf", "tfidf", tfidf)
       /\ svc_model' =
              Assigned(failed, "clf",
                       IF d.clf = "wide" THEN "svc_wide" ELSE "svc", svc_model)
       /\ le' =
              Assigned(failed, "encoder",
                       IF d.enc = "noclasses" THEN "le_noclasses" ELSE "le", le)
       /\ CATEGORY_MAP' =
              IF Passed(failed, "catalog") THEN d.cat ELSE CATEGORY_MAP
       /\ INVERSE_TRANSFORM' =
              IF Passed(failed, "classes")
              THEN InverseTable(Classes)
              ELSE INVERSE_TRANSFORM
       /\ SUGGESTIONS_MAP' =
              IF Passed(failed, "suggestions")
              THEN CatalogRecords(d.cat)
              ELSE SUGGESTIONS_MAP
       /\ MODELS_LOADED_SUCCESSFULLY' = (failed = "ok")
       /\ lastLoad' = failed

\* load_models(): net is what the network does during this call
load_models(net) ==
    IF MODELS_LOADED_SUCCESSFULLY
    THEN /\ lastLoad' = "skipped"
         /\ UNCHANGED <<disk, globalVars>>
    ELSE LET d == AfterDownload(disk, net)
             failed == FailingStep(d, DownloadRaises(disk, net))
         IN /\ disk' = d
            /\ tfidf' = Assigned(failed, "tfidf", "tfidf", tfidf)
            /\ svc_model' =
                   Assigned(failed, "clf",
                            IF d.clf = "wide" THEN "svc_wide" ELSE "svc", svc_model)
            /\ le' =
                   Assigned(failed, "encoder",
                            IF d.enc = "noclasses" THEN "le_noclasses" ELSE "le", le)
            /\ CATEGORY_MAP' =
                   IF Passed(failed, "catalog") THEN d.cat ELSE CATEGORY_MAP
            /\ INVERSE_TRANSFORM' =
                   IF Passed(failed, "classes")
                   THEN InverseTable(Classes)
                   ELSE INVERSE_TRANSFORM
            /\ SUGGESTIONS_MAP' =
                   IF Passed(failed, "suggestions")
                   THEN CatalogRecords(d.cat)
                   ELSE SUGGESTIONS_MAP
            /\ MODELS_LOADED_SUCCESSFULLY' = LoadedFlag(failed)
            /\ lastLoad' = failed

\* ------------------------------------------------------------------------
\* The artifacts at work: tfidf.transform, svc_model.predict,
\* le.inverse_transform (lines 134 to 147)
\* ------------------------------------------------------------------------

\* the vectorizer's vocabulary is the one term "HR": the feature is 1 when
\* the cleaned text holds it and 0 (no active feature) otherwise
Transform(cleaned) ==
    IF \E i \in 1..Len(cleaned) : HasAt(cleaned, i, <<"H", "R">>) THEN 1 ELSE 0

\* the class index the classifier decides on; the "wide" classifier knows a
\* third class, which it predicts for the vector with no active feature
Classify(model, vec) == IF model = "svc_wide" /\ vec = 0 THEN 2 ELSE vec

\* le.inverse_transform raises ValueError on an index it has no class for
Decodable(idx) == idx + 1 \in 1..Len(Classes)

Decoded(idx) == Classes[idx + 1]

\* dict.get(key) without the default of line 150
DictGet_NoDefault(map, key, default) ==
    IF \E e \in map : e[1] = key
    THEN (CHOOSE e \in map : e[1] = key)[2]
    ELSE None

\* dict.get(key, default) on a dict kept as (key, value) pairs
DictGet(map, key, default) ==
    IF \E e \in map : e[1] = key
    THEN (CHOOSE e \in map : e[1] = key)[2]
    ELSE default

\* ------------------------------------------------------------------------
\* Requests: POST /predict (lines 437 to 466) calling
\* predict_category_and_suggest (lines 122 to 152)
\* ------------------------------------------------------------------------

Workers == {"w1", "w2"}

HealthCheckText ==
    <<"h", "e", "a", "l", "t", "h", " ", "c", "h", "e", "c", "k">>

\* the values of the 'resume' field: empty, the health check, a resume that
\* holds the vocabulary term, one that does not, and white space only
ResumeTexts ==
    { <<>>, HealthCheckText, <<"H", "R">>,
      <<"s", "q", "l", " ", "#", "d", "b">>, <<" ">> }

\* a request body: no JSON at all (get_json(silent=True) gives None), an
\* object without 'resume', an object whose 'resume' is a non-zero number,
\* an object whose 'resume' is a string
Bodies ==
    { [kind |-> k, text |-> <<>>] : k \in {"nojson", "noresume", "number"} }
        \cup { [kind |-> "text", text |-> t] : t \in ResumeTexts }

NoBody == [kind |-> "none", text |-> <<>>]

NoOut == [kind |-> "none", category |-> None, suggestion |-> None]

Returned(category, suggestion) ==
    [kind |-> "return", category |-> category, suggestion |-> suggestion]

\* an exception leaves predict_category_and_suggest
Raised == [kind |-> "raise", category |-> None, suggestion |-> None]

NoResponse ==
    [kind |-> "none", status |-> 0, category |-> None, suggestion |-> None,
     error |-> None]

Json(status, category, suggestion, error) ==
    [kind |-> "json", status |-> status, category |-> category,
     suggestion |-> suggestion, error |-> error]

\* the exception left the view function: the response is the framework's,
\* not one the view built
Unhandled ==
    [kind |-> "unhandled", status |-> 500, category |-> None,
     suggestion |-> None, error |-> None]

InternalError == "An internal error occurred during prediction."

IdleReq ==
    [pc |-> "idle", body |-> NoBody, sawLoaded |-> FALSE, cleaned |-> <<>>,
     vec |-> -1, idx |-> -1, out |-> NoOut, response |-> NoResponse]

\* `not resume_text` of line 451
Falsy(body) == body.kind = "noresume" \/ (body.kind = "text" /\ body.text = <<>>)

\* lines 439 to 452: the view up to the call of the core
RouteEntry(body) ==
    CASE body.kind = "nojson" ->
             \* data is None: data.get raises outside the try block
             [IdleReq EXCEPT !.pc = "done", !.body = body, !.response = Unhandled]
      [] body.kind = "text" /\ body.text = HealthCheckText ->
             [IdleReq EXCEPT !.pc = "done", !.body = body,
                 !.response =
                     IF MODELS_LOADED_SUCCESSFULLY
                     THEN Json(200, "Model Available", "System operational.", None)
                     ELSE Json(503, UnavailableCategory,
                               "Model loading failed on server.", None)]
      [] Falsy(body) ->
             [IdleReq EXCEPT !.pc = "done", !.body = body,
                 !.response = Json(400, None, None, "No resume text provided.")]
      [] OTHER -> [IdleReq EXCEPT !.pc = "core", !.body = body]

Receive(w, body) ==
    /\ phase = "serving"
    /\ w \in threads
    /\ req[w].pc = "idle"
    /\ req' = [req EXCEPT ![w] = RouteEntry(body)]
    /\ UNCHANGED <<cleanVars, disk, globalVars, lastLoad, phase, threads>>

\* predict_category_and_suggest without the check of line 126
CoreEntry_Unchecked(r) ==
    [r EXCEPT !.pc = "vectorize", !.sawLoaded = MODELS_LOADED_SUCCESSFULLY,
        !.cleaned = cleanResume(r.body.text)]

\* lines 126 to 131: the availability check and the cleaning
CoreEntry(r) ==
    CASE ~MODELS_LOADED_SUCCESSFULLY ->
             [r EXCEPT !.pc = "respond", !.sawLoaded = FALSE,
                 !.out = Returned(UnavailableCategory, UnavailableSuggestion)]
      [] r.body.kind = "number" ->
             \* txt.strip() of a number raises AttributeError
             [r EXCEPT !.pc = "respond", !.sawLoaded = TRUE, !.out = Raised]
      [] OTHER ->
             [r EXCEPT !.pc = "vectorize", !.sawLoaded = TRUE,
                 !.cleaned = cleanResume(r.body.text)]

\* a pipeline that keeps cleaned_text in a module global: the vectorizer
\* reads what the latest call in flight stored there
VectorizeStep_SharedText(r) ==
    LET others == { w \in Workers : req[w] # r /\ req[w].pc \in {"vectorize", "classify", "decode"} }
        text == IF others = {} THEN r.cleaned ELSE req[CHOOSE w \in others : TRUE].cleaned
    IN [r EXCEPT !.pc = "classify", !.vec = Transform(text)]

\* line 134
VectorizeStep(r) ==
    IF tfidf = None
    THEN [r EXCEPT !.pc = "respond", !.out = Raised]
    ELSE [r EXCEPT !.pc = "classify", !.vec = Transform(r.cleaned)]

\* lines 137 to 144
ClassifyStep(r) ==
    IF svc_model = None
    THEN [r EXCEPT !.pc = "respond", !.out = Raised]
    ELSE [r EXCEPT !.pc = "decode", !.idx = Classify(svc_model, r.vec)]

\* lines 147 to 152
DecodeStep(r) ==
    IF le = None \/ ~Decodable(r.idx)
    THEN [r EXCEPT !.pc = "respond", !.out = Raised]
    ELSE [r EXCEPT !.pc = "respond",
             !.out = Returned(Decoded(r.idx),
                         DictGet(SUGGESTIONS_MAP, Decoded(r.idx), GenericSuggestion))]

\* lines 454 to 466: the view after the call of the core
RouteExit(r) ==
    [r EXCEPT !.pc = "done",
        !.response =
            CASE r.out.kind = "raise" -> Json(500, None, None, InternalError)
              [] r.out.category = UnavailableCategory ->
                     Json(503, r.out.category, r.out.suggestion, UnavailableCategory)
              [] OTHER -> Json(200, r.out.category, r.out.suggestion, None)]

Core(w) ==
    /\ req[w].pc = "core"
    /\ req' = [req EXCEPT ![w] = CoreEntry(req[w])]
    /\ UNCHANGED <<cleanVars, disk, globalVars, lastLoad, phase, threads>>

Vectorize(w) ==
    /\ req[w].pc = "vectorize"
    /\ req' = [req EXCEPT ![w] = VectorizeStep(req[w])]
    /\ UNCHANGED <<cleanVars, disk, globalVars, lastLoad, phase, threads>>

Predict(w) ==
    /\ req[w].pc = "classify"
    /\ req' = [req EXCEPT ![w] = ClassifyStep(req[w])]
    /\ UNCHANGED <<cleanVars, disk, globalVars, lastLoad, phase, threads>>

Decode(w) ==
    /\ req[w].pc = "decode"
    /\ req' = [req EXCEPT ![w] = DecodeStep(req[w])]
    /\ UNCHANGED <<cleanVars, disk, globalVars, lastLoad, phase, threads>>

Respond(w) ==
    /\ req[w].pc = "respond"
    /\ req' = [req EXCEPT ![w] = RouteExit(req[w])]
    /\ UNCHANGED <<cleanVars, disk, globalVars, lastLoad, phase, threads>>

\* the response is sent and the thread takes the next request
Finish(w) ==
    /\ req[w].pc = "done"
    /\ req' = [req EXCEPT ![w] = IdleReq]
    /\ UNCHANGED <<cleanVars, disk, globalVars, lastLoad, phase, threads>>

\* ------------------------------------------------------------------------
\* The process: import (which calls load_models), then requests; the files
\* change under it, and load_models may be called again
\* ------------------------------------------------------------------------

ImportModule ==
    /\ phase = "import"
    /\ \E net \in NetOutcomes : load_models(net)
    /\ phase' = "serving"
    /\ UNCHANGED <<cleanVars, threads, req>>

LoadAgain ==
    /\ phase = "serving"
    /\ \E net \in NetOutcomes : load_models(net)
    /\ UNCHANGED <<cleanVars, phase, threads, req>>

FileContents(f) ==
    CASE f = "tfidf" -> TfidfFiles
      [] f = "clf" -> ClfFiles
      [] f = "enc" -> EncoderFiles
      [] f = "cat" -> CatalogFiles

\* somebody replaces, repairs or removes a file
DiskChange ==
    /\ \E f \in {"tfidf", "clf", "enc", "cat"} :
           \E v \in FileContents(f) \ {disk[f]} : disk' = [disk EXCEPT ![f] = v]
    /\ UNCHANGED <<cleanVars, globalVars, lastLoad, phase, threads, req>>

CleanIdle ==
    /\ sample = <<>>
    /\ pass1 = <<>>
    /\ pass2 = <<>>
    /\ stage = "off"

\* lines 29 to 35
GlobalsInit ==
    /\ tfidf = None
    /\ svc_model = None
    /\ le = None
    /\ CATEGORY_MAP = None
    /\ INVERSE_TRANSFORM = {}
    /\ SUGGESTIONS_MAP = {}
    /\ MODELS_LOADED_SUCCESSFULLY = FALSE

\* the process before line 97 runs, over the files of d, serving with ts
ServerInit(ds, ts) ==
    /\ disk \in ds
    /\ GlobalsInit
    /\ lastLoad = "never"
    /\ phase = "import"
    /\ threads = ts
    /\ req = [w \in Workers |-> IdleReq]

\* one server thread, over every content of the four files
Init == CleanIdle /\ ServerInit(Disks, {"w1"})

Next ==
    \/ ImportModule
    \/ LoadAgain
    \/ DiskChange
    \/ \E w \in Workers : \E body \in Bodies : Receive(w, body)
    \/ \E w \in Workers : Core(w)
    \/ \E w \in Workers : Vectorize(w)
    \/ \E w \in Workers : Predict(w)
    \/ \E w \in Workers : Decode(w)
    \/ \E w \in Workers : Respond(w)
    \/ \E w \in Workers : Finish(w)

Spec == Init /\ [][Next]_vars

\* the deployments of the two-thread server: every file in order, and one
\* deployment per step load_models can fail at
GoodDisk == [tfidf |-> "good", clf |-> "good", enc |-> "good", cat |-> "full"]

Deployments ==
    { GoodDisk,
      [GoodDisk EXCEPT !.cat = "partial"],
      [GoodDisk EXCEPT !.clf = "wide"],
      [GoodDisk EXCEPT !.tfidf = "absent"],
      [GoodDisk EXCEPT !.tfidf = "corrupt"],
      [GoodDisk EXCEPT !.clf = "corrupt"],
      [GoodDisk EXCEPT !.enc = "corrupt"],
      [GoodDisk EXCEPT !.enc = "noclasses"],
      [GoodDisk EXCEPT !.cat = "absent"],
      [GoodDisk EXCEPT !.cat = "badrecord"] }

\* the broken files are replaced by good ones
Repair ==
    /\ disk # GoodDisk
    /\ disk' = GoodDisk
    /\ UNCHANGED <<cleanVars, globalVars, lastLoad, phase, threads, req>>

InitConc == CleanIdle /\ ServerInit(Deployments, Workers)

NextConc ==
    \/ ImportModule
    \/ LoadAgain
    \/ Repair
    \/ \E w \in Workers : \E body \in Bodies : Receive(w, body)
    \/ \E w \in Workers : Core(w)
    \/ \E w \in Workers : Vectorize(w)
    \/ \E w \in Workers : Predict(w)
    \/ \E w \in Workers : Decode(w)
    \/ \E w \in Workers : Respond(w)
    \/ \E w \in Workers : Finish(w)

SpecConc == InitConc /\ [][NextConc]_vars

\* the cleaner alone: the server is not started
ServerOff ==
    /\ disk = [tfidf |-> "absent", clf |-> "absent", enc |-> "absent",
               cat |-> "absent"]
    /\ GlobalsInit
    /\ lastLoad = "never"
    /\ phase = "import"
    /\ threads = {}
    /\ req = [w \in Workers |-> IdleReq]

InitClean == CleanInit /\ ServerOff

NextClean ==
    \/ CleanOnce /\ UNCHANGED serverVars
    \/ CleanTwice /\ UNCHANGED serverVars

SpecClean == InitClean /\ [][NextClean]_vars

\* ------------------------------------------------------------------------
\* Properties
\* ------------------------------------------------------------------------

Sentinel == Returned(UnavailableCategory, UnavailableSuggestion)

\* the locals of the pipeline are as the call found them
PipelineUntouched(r) == r.cleaned = <<>> /\ r.vec = -1 /\ r.idx = -1

\* C1: whenever the artifacts are not loaded, predict_category_and_suggest
\* returns ("Model Unavailable", remediation message) for every input, as a
\* normal return value, and touches neither vectorizer, classifier nor decoder
C1_UnavailableSentinel ==
    [][\A w \in Workers :
           (Core(w) /\ ~MODELS_LOADED_SUCCESSFULLY) =>
               /\ req'[w].out = Sentinel
               /\ req'[w].pc = "respond"
               /\ PipelineUntouched(req'[w])]_vars

\* a call answered the sentinel while an artifact of a partial load was held
C1_Witness ==
    \E w \in Workers :
        /\ req[w].pc = "respond"
        /\ ~req[w].sawLoaded
        /\ req[w].out = Sentinel
        /\ req[w].body.kind = "number"
        /\ tfidf # None
        /\ ~MODELS_LOADED_SUCCESSFULLY

\* every file load_models needs exists and is in order
Loadable(d) == FailingStep(d, FALSE) = "ok"

\* C2: a predict call made while the engine is Unavailable reloads the
\* artifacts first: when they have become loadable, the call finds the engine
\* Available and returns a real (label, suggestion) instead of the sentinel
C2_ReloadOnPredict ==
    [][\A w \in Workers :
           (Core(w) /\ ~MODELS_LOADED_SUCCESSFULLY /\ Loadable(disk)) =>
               /\ MODELS_LOADED_SUCCESSFULLY'
               /\ req'[w].out # Sentinel]_vars

FailedSteps == { LoadSteps[i] : i \in 1..Len(LoadSteps) }

\* C3 as claimed: after a failed load_models the state is LoadFailed and
\* none of vectorizer, classifier and decoder is held
C3_AtomicLoad ==
    lastLoad \in FailedSteps =>
        /\ ~MODELS_LOADED_SUCCESSFULLY
        /\ tfidf = None
        /\ svc_model = None
        /\ le = None

\* C3: after a failed load_models the state is LoadFailed, and every
\* artifact unpickled before the failing step is still held
C3_FailedLoadKeepsPartial ==
    lastLoad \in FailedSteps =>
        /\ ~MODELS_LOADED_SUCCESSFULLY
        /\ (Passed(lastLoad, "tfidf") => tfidf = "tfidf")
        /\ (Passed(lastLoad, "clf") => svc_model \in {"svc", "svc_wide"})
        /\ (Passed(lastLoad, "encoder") => le \in {"le", "le_noclasses"})

\* the load failed at the encoder and the two artifacts before it are held
C3_Witness ==
    /\ lastLoad = "encoder"
    /\ ~MODELS_LOADED_SUCCESSFULLY
    /\ tfidf = "tfidf"
    /\ svc_model = "svc"
    /\ le = None

Range(s) == { s[i] : i \in 1..Len(s) }

\* C4: cleanResume is idempotent, also on an input whose last token starts
\* with "http" and holds punctuation or "RT"/"cc"
C4_Idempotent == stage = "twice" => pass2 = pass1

\* C5: for every input string, cleanResume returns a text of ASCII letters,
\* ASCII digits and spaces only, with no two adjacent spaces and no leading
\* or trailing space; for an empty or whitespace-only input it returns ""
C5_CleanShape ==
    stage \in {"once", "twice"} =>
        /\ \A i \in 1..Len(pass1) : IsAlnum(pass1[i]) \/ pass1[i] = " "
        /\ \A i \in 1..(Len(pass1) - 1) : ~(pass1[i] = " " /\ pass1[i + 1] = " ")
        /\ pass1 # <<>> => (pass1[1] # " " /\ pass1[Len(pass1)] # " ")
        /\ (\A i \in 1..Len(sample) : IsSpace(sample[i])) => pass1 = <<>>

\* an input with a non-ASCII letter, a non-ASCII space and a mention was
\* cleaned to a non-empty text
C5_Witness ==
    /\ stage = "once"
    /\ {"U+00E9", "U+00A0", "@"} \subseteq Range(sample)
    /\ pass1 # <<>>

\* what the documentation says cleanResume returns on the scenario input
ScenarioClaimed ==
    <<"E", "x", "p", "e", "r", "i", "e", "n", "c", "e", " ", "i", "n", " ",
      "P", "y", "t", "h", "o", "n", " ", "M", "a", "c", "h", "i", "n", "e",
      " ", "L", "e", "a", "r", "n", "i", "n", "g", " ", "a", "n", "d", " ",
      "D", "a", "t", "a", " ", "A", "n", "a", "l", "y", "s", "i", "s", " ",
      "D", "a", "t", "a", "S", "c", "i", "e", "n", "c", "e", " ", "c", "o",
      "m", "p", "a", "n", "y">>

\* what cleanResume returns on the scenario input
ScenarioCleaned ==
    <<"E", "x", "p", "e", "r", "i", "e", "n", "c", "e", " ", "i", "n", " ",
      "P", "y", "t", "h", "o", "n", " ", "M", "a", "c", "h", "i", "n", "e",
      " ", "L", "e", "a", "r", "n", "i", "n", "g", " ", "a", "n", "d", " ",
      "D", "a", "t", "a", " ", "A", "n", "a", "l", "y", "s", "i", "s">>

\* C6 as claimed: on the scenario input cleanResume keeps the words of the
\* hashtag and of the mention ("DataScience", "company")
C6_ScenarioKeepsWords ==
    (stage = "once" /\ sample = ScenarioInput) => pass1 = ScenarioClaimed

\* C6: on the scenario input cleanResume removes the hashtag and the mention
\* with their words, and the token "RT"; punctuation becomes single spaces
C6_ScenarioDropsTokens ==
    (stage = "once" /\ sample = ScenarioInput) => pass1 = ScenarioCleaned

C6_Witness == stage = "once" /\ sample = ScenarioInput /\ pass1 # <<>>

\* the call of predict_category_and_suggest has ended
Answered(r) == r.pc \in {"respond", "done"} /\ r.out.kind # "none"

\* C7: in the Available state, for every label the decoder returns, predict
\* returns the decoded label as category and, as suggestion, the catalog's
\* text for the label if it has one and else the fixed, non-empty generic
\* text; it raises no error
C7_CatalogFallback ==
    \A w \in Workers :
        (Answered(req[w]) /\ req[w].sawLoaded /\ req[w].idx >= 0 /\ Decodable(req[w].idx)) =>
            /\ req[w].out.kind = "return"
            /\ req[w].out.category = Decoded(req[w].idx)
            /\ \A e \in SUGGESTIONS_MAP :
                   e[1] = req[w].out.category => req[w].out.suggestion = e[2]
            /\ (\A e \in SUGGESTIONS_MAP : e[1] # req[w].out.category) =>
                   /\ req[w].out.suggestion = GenericSuggestion
                   /\ GenericSuggestion # ""

\* a call returned the label "HR", which the catalog has no entry for, with
\* the generic suggestion
C7_Witness ==
    \E w \in Workers :
        /\ req[w].pc = "done"
        /\ req[w].sawLoaded
        /\ req[w].out = Returned("HR", GenericSuggestion)
        /\ SUGGESTIONS_MAP = { <<"Data Science", DataScienceTip>> }

\* load_models failed at reading the catalog or at building the suggestion
\* map from it: the three artifacts had loaded
CatalogFailures == {"catalog", "suggestions"}

\* C8 as claimed: with the three artifacts loaded and the catalog missing or
\* malformed, the system is not in the Unavailable state of an artifact-load
\* failure
C8_CatalogFailureDistinct ==
    lastLoad \in CatalogFailures => MODELS_LOADED_SUCCESSFULLY

\* C8: a missing or malformed catalog ends load_models like an artifact-load
\* failure: the three artifacts are held, the state is Unavailable, and
\* predict answers the "Model Unavailable" sentinel
C8_CatalogFailureUnavailable ==
    /\ [](lastLoad \in CatalogFailures =>
              /\ ~MODELS_LOADED_SUCCESSFULLY
              /\ tfidf # None /\ svc_model # None /\ le # None)
    /\ [][\A w \in Workers :
              (Core(w) /\ lastLoad \in CatalogFailures) => req'[w].out = Sentinel]_vars

\* after a load that failed on the catalog, a call answered the sentinel
C8_Witness ==
    \E w \in Workers :
        /\ lastLoad \in CatalogFailures
        /\ tfidf # None /\ svc_model # None /\ le # None
        /\ req[w].pc = "respond"
        /\ req[w].body.kind = "text"
        /\ req[w].out = Sentinel

\* what predict_category_and_suggest returns to the call of r when it runs
\* alone, start to end, in the availability state the call found
SoloOut(r) ==
    IF ~r.sawLoaded THEN Sentinel
    ELSE IF r.body.kind = "number" THEN Raised
    ELSE LET i == Classify(svc_model, Transform(cleanResume(r.body.text)))
         IN IF Decodable(i)
            THEN Returned(Decoded(i), DictGet(SUGGESTIONS_MAP, Decoded(i), GenericSuggestion))
            ELSE Raised

\* a step of a call of predict_category_and_suggest
PredictStep(w) == Core(w) \/ Vectorize(w) \/ Predict(w) \/ Decode(w)

InFlight(r) == r.pc \in {"core", "vectorize", "classify", "decode"}

\* C9: under any interleaving of the predict calls of two threads, each call
\* completes, returns what it would return alone in the availability state
\* it runs in, and writes no shared state (artifacts, lookup tables, flag)
C9_NoInterference ==
    /\ [](\A w \in Workers : Answered(req[w]) => req[w].out = SoloOut(req[w]))
    /\ [][\A w \in Workers : PredictStep(w) => UNCHANGED <<globalVars, disk, lastLoad>>]_vars
    /\ \A w \in Workers : InFlight(req[w]) ~> Answered(req[w])

\* two calls with different inputs ran interleaved and both returned a label
C9_Witness ==
    /\ req["w1"].pc = "respond" /\ req["w2"].pc = "respond"
    /\ req["w1"].out.kind = "return" /\ req["w2"].out.kind = "return"
    /\ req["w1"].out.category = "HR"
    /\ req["w2"].out.category = "Data Science"

\* the scheduler runs every thread that has a step to take
Advance(w) == PredictStep(w) \/ Respond(w) \/ Finish(w)

SpecConcFair == SpecConc /\ \A w \in Workers : WF_vars(Advance(w))

\* C10: every POST /predict ends in a response the view built: 400 for a
\* missing or empty resume, 503 with category "Model Unavailable" for the
\* sentinel, 200 with category and suggestion for a prediction, and 500 with
\* the generic internal-error message for any failure, a request without a
\* JSON body included
C10_BoundaryResponses ==
    \A w \in Workers :
        req[w].pc = "done" =>
            LET r == req[w]
                health == r.body.kind = "text" /\ r.body.text = HealthCheckText
            IN /\ r.response.kind = "json"
               /\ r.body.kind = "nojson" =>
                      r.response = Json(500, None, None, InternalError)
               /\ Falsy(r.body) => (r.response.status = 400 /\ r.out.kind = "none")
               /\ r.out.kind = "raise" =>
                      r.response = Json(500, None, None, InternalError)
               /\ (r.out.kind = "return" /\ r.out.category = UnavailableCategory) =>
                      (r.response.status = 503 /\ r.response.category = UnavailableCategory)
               /\ (r.out.kind = "return" /\ r.out.category # UnavailableCategory) =>
                      r.response = Json(200, r.out.category, r.out.suggestion, None)
               /\ health => r.response.status \in {200, 503}

\* C11: once load_models has succeeded, no load_models call, predict call or
\* /predict request changes the flag, the three artifacts, the
\* index-to-label table or the suggestion map, and a repeated load_models
\* call returns at once: it downloads nothing and reads no file
C11_LoadedAbsorbing ==
    [][MODELS_LOADED_SUCCESSFULLY =>
           /\ UNCHANGED globalVars
           /\ LoadAgain => (lastLoad' = "skipped" /\ disk' = disk)]_vars

\* load_models was called again after a success, over files it could not
\* have loaded, and a request had ended in the internal error before
C11_Witness ==
    /\ MODELS_LOADED_SUCCESSFULLY
    /\ lastLoad = "skipped"
    /\ ~Loadable(disk)
    /\ disk.tfidf = "absent"
    /\ \E w \in Workers :
           /\ req[w].pc = "done"
           /\ req[w].out.kind = "raise"
           /\ req[w].response.status = 500

\* the object pickle.load gives for the classifier file
ClassifierOf(d) == IF d.clf = "wide" THEN "svc_wide" ELSE "svc"

\* the pipeline of lines 134 to 147 is running
InPipeline(r) == r.pc \in {"vectorize", "classify", "decode"}

\* C12: in every reachable state MODELS_LOADED_SUCCESSFULLY implies that
\* vectorizer, classifier and decoder are all loaded and that the
\* index-to-label table and the suggestion map are built; the load that sets
\* the flag assigns all of them from the files it read; hence the pipeline
\* runs with all three artifacts present only
C12_LoadedImpliesArtifacts ==
    /\ [](MODELS_LOADED_SUCCESSFULLY =>
              /\ tfidf = "tfidf"
              /\ svc_model \in {"svc", "svc_wide"}
              /\ le = "le"
              /\ CATEGORY_MAP \in {"partial", "full"}
              /\ INVERSE_TRANSFORM = InverseTable(Classes)
              /\ SUGGESTIONS_MAP = CatalogRecords(CATEGORY_MAP))
    /\ [](\A w \in Workers :
              InPipeline(req[w]) =>
                  /\ MODELS_LOADED_SUCCESSFULLY
                  /\ tfidf # None /\ svc_model # None /\ le # None)
    /\ [][(~MODELS_LOADED_SUCCESSFULLY /\ MODELS_LOADED_SUCCESSFULLY') =>
              /\ Loadable(disk')
              /\ svc_model' = ClassifierOf(disk')
              /\ CATEGORY_MAP' = disk'.cat
              /\ SUGGESTIONS_MAP' = CatalogRecords(disk'.cat)]_vars

\* after a load that succeeded over a catalog without an entry for "HR",
\* a call is in the pipeline, classified and about to be decoded
C12_Witness ==
    /\ MODELS_LOADED_SUCCESSFULLY
    /\ lastLoad = "ok"
    /\ svc_model = "svc"
    /\ SUGGESTIONS_MAP = CatalogRecords("partial")
    /\ \E w \in Workers : req[w].pc = "decode" /\ req[w].idx = 1

====
